---- MODULE Spec2Model ----
(***************************************************************************)
(* igl::repdiag (src/repdiag.h): repeat a matrix A d times along the       *)
(* diagonal of B.  Two overloads write into a caller-supplied B (sparse,   *)
(* lines 44-76; dense, lines 78-92); a wrapper (lines 94-101) supplies a   *)
(* default-constructed B and returns it.                                   *)
(*                                                                         *)
(* A dense matrix is [rows, cols, data] with data the column-major storage *)
(* (Eigen's default for Matrix<T,Dynamic,Dynamic>).  A compressed sparse   *)
(* matrix is [rows, cols, ent] with ent the stored entries in column-major *)
(* (outer = column, inner = row) order.  The scalar type T is modelled as  *)
(* a floating-point type: some finite values and NaN.                      *)
(***************************************************************************)
EXTENDS Integers, Sequences, FiniteSets

VARIABLES kind, A, d, B, B0, pc, i, dyn_B, d2, T, R1, R2

vars == <<kind, A, d, B, B0, pc, i, dyn_B, d2, T, R1, R2>>

\* ---------------------------------------------------------------- bounds
\* A has at most MaxCells coefficients (rows * cols <= MaxCells).
MaxCells == 4
\* The composed calls take an A of at most MaxComposeCells coefficients.
MaxComposeCells == 2
\* The caller's B has at most MaxBCells coefficients at entry.
MaxBCells == 4
\* d ranges over -1 .. MaxD.
MaxD == 2

\* ---------------------------------------------------------------- scalars
\* The IEEE not-a-number of a floating-point T.
NaN == -1

\* The values of T the model uses: what a buffer or the caller's B may hold,
\* and the finite values A is made of.
Val == {0, 1, NaN}

AVal == {0, 1, 2}

\* T's multiplication: anything times NaN is NaN.
Times(x, y) == IF x = NaN \/ y = NaN THEN NaN ELSE x * y

\* T's addition.
Plus(x, y) == IF x = NaN \/ y = NaN THEN NaN ELSE x + y

\* ---------------------------------------------------------------- dense
DenseMat(r, c, dat) == [rows |-> r, cols |-> c, data |-> dat]

\* Number of coefficients a dense matrix of the given shape stores.
DenseSize(r, c) == IF r > 0 /\ c > 0 THEN r * c ELSE 0

\* M(r, c), column-major.
coeff(M, r, c) == M.data[c * M.rows + r + 1]

\* What a freshly allocated buffer of len scalars can hold: never written,
\* so every read of it is indeterminate.  g = <<g1, g2>> picks the contents.
Storage(len, g) == [k \in 1..len |-> IF k % 2 = 1 THEN g[1] ELSE g[2]]

Junk == Val \X Val

\* B.resize(r, c): the buffer is kept when the number of coefficients does
\* not change and reallocated (uninitialized) otherwise.
resize_swapped(M, r, c, g) ==
  IF DenseSize(r, c) = DenseSize(M.rows, M.cols)
  THEN [M EXCEPT !.rows = c, !.cols = r]
  ELSE DenseMat(c, r, Storage(DenseSize(r, c), g))

resize(M, r, c, g) ==
  IF DenseSize(r, c) = DenseSize(M.rows, M.cols)
  THEN [M EXCEPT !.rows = r, !.cols = c]
  ELSE DenseMat(r, c, Storage(DenseSize(r, c), g))

\* B.array() *= 0
array_times_zero(M) ==
  [M EXCEPT !.data = [k \in DOMAIN M.data |-> Times(M.data[k], 0)]]

\* B.block(r0, c0, A.rows, A.cols) = A
block_assign_short(M, r0, c0, X) ==
  [M EXCEPT !.data = [k \in DOMAIN M.data |->
     LET r == (k - 1) % M.rows
         c == (k - 1) \div M.rows
     IN IF r >= r0 /\ r < r0 + X.rows - 1 /\ c >= c0 /\ c < c0 + X.cols
        THEN coeff(X, r - r0, c - c0)
        ELSE M.data[k]]]

block_assign(M, r0, c0, X) ==
  [M EXCEPT !.data = [k \in DOMAIN M.data |->
     LET r == (k - 1) % M.rows
         c == (k - 1) \div M.rows
     IN IF r >= r0 /\ r < r0 + X.rows /\ c >= c0 /\ c < c0 + X.cols
        THEN coeff(X, r - r0, c - c0)
        ELSE M.data[k]]]

\* One pass of the loop body at line 90.
dense_block_swapped(M, X, k) == block_assign(M, k * X.cols, k * X.rows, X)

dense_block(M, X, k) == block_assign(M, k * X.rows, k * X.cols, X)

RECURSIVE dense_loop(_, _, _, _)
dense_loop(M, X, k, n) ==
  IF k < n THEN dense_loop(dense_block(M, X, k), X, k + 1, n) ELSE M

\* The dense overload as a whole, for B as the caller passes it and g the
\* contents of the buffer resize allocates.
repdiag_dense(X, n, M, g) ==
  dense_loop(array_times_zero(resize(M, X.rows * n, X.cols * n, g)), X, 0, n)

\* ---------------------------------------------------------------- sparse
SparseMat(r, c, e) == [rows |-> r, cols |-> c, ent |-> e]

\* Is (r, c) a stored entry of the compressed matrix M?
stored(M, r, c) == \E p \in 1..Len(M.ent) : M.ent[p].row = r /\ M.ent[p].col = c

\* M.coeff(r, c): the stored value, zero where nothing is stored.
sparse_coeff(M, r, c) ==
  IF stored(M, r, c)
  THEN M.ent[CHOOSE p \in 1..Len(M.ent) : M.ent[p].row = r /\ M.ent[p].col = c].value
  ELSE 0

\* DynamicSparseMatrix<T, RowMajor> dyn_B(r, c): one sorted vector of
\* (index, value) pairs per row, all empty.
dyn_new(r, c) ==
  [rows |-> r, cols |-> c, data |-> [k \in 1..r |-> <<>>]]

\* vec.atWithInsertion(inner) += v: the pair is created with value zero, at
\* its sorted position, when the vector has none for this index.
atWithInsertion_add(vec, inner, v) ==
  IF \E p \in 1..Len(vec) : vec[p].index = inner
  THEN LET p == CHOOSE q \in 1..Len(vec) : vec[q].index = inner
       IN [vec EXCEPT ![p].value = Plus(@, v)]
  ELSE LET lt == Cardinality({q \in 1..Len(vec) : vec[q].index < inner})
       IN SubSeq(vec, 1, lt) \o <<[index |-> inner, value |-> Plus(0, v)]>>
          \o SubSeq(vec, lt + 1, Len(vec))

\* dyn_B.coeffRef(row, col) += v
coeffRef_add(D, row, col, v) ==
  [D EXCEPT !.data[row + 1] = atWithInsertion_add(@, col, v)]

\* The two inner loops (lines 65-72) from the p-th stored entry of X on, in
\* X's outer-then-inner order, with the offsets of one repetition.
RECURSIVE sparse_entries(_, _, _, _, _)
sparse_entries(D, X, ro, co, p) ==
  IF p > Len(X.ent) THEN D
  ELSE sparse_entries(
         coeffRef_add(D, ro + X.ent[p].row, co + X.ent[p].col, X.ent[p].value),
         X, ro, co, p + 1)

\* One pass of the loop over reps (line 62), repetition k.
sparse_rep_no_offset(D, X, k) == sparse_entries(D, X, 0, 0, 1)

sparse_rep_skip_first(D, X, k) ==
  IF k = 0 THEN D ELSE sparse_entries(D, X, k * X.rows, k * X.cols, 1)

sparse_rep(D, X, k) == sparse_entries(D, X, k * X.rows, k * X.cols, 1)

RECURSIVE sparse_loop(_, _, _, _)
sparse_loop(D, X, k, n) ==
  IF k < n THEN sparse_loop(sparse_rep(D, X, k), X, k + 1, n) ELSE D

\* Eigen::SparseMatrix<T>(dyn_B): every stored pair of dyn_B, column by
\* column and by increasing row inside a column.  k is the column-major
\* position c * rows + r.
RECURSIVE compress_from(_, _)
compress_from(D, k) ==
  IF k >= DenseSize(D.rows, D.cols) THEN <<>>
  ELSE LET r == k % D.rows
           c == k \div D.rows
           vec == D.data[r + 1]
       IN (IF \E p \in 1..Len(vec) : vec[p].index = c
           THEN <<[row |-> r, col |-> c,
                   value |-> vec[CHOOSE p \in 1..Len(vec) : vec[p].index = c].value]>>
           ELSE <<>>)
          \o compress_from(D, k + 1)

compress(D) == SparseMat(D.rows, D.cols, compress_from(D, 0))

\* The sparse overload as a whole; it never reads the B it is given.
repdiag_sparse(X, n) ==
  compress(sparse_loop(dyn_new(X.rows * n, X.cols * n), X, 0, n))

\* ---------------------------------------------------------------- wrapper
\* Mat B; -- a default-constructed matrix is 0 x 0.
EmptyMat(k) ==
  IF k = "dense" THEN DenseMat(0, 0, <<>>) ELSE SparseMat(0, 0, <<>>)

\* Mat repdiag(A, d): the results the call can return.
repdiag_wrapper(k, X, n) ==
  IF k = "dense"
  THEN {repdiag_dense(X, n, EmptyMat(k), g) : g \in Junk}
  ELSE {repdiag_sparse(X, n)}

\* ---------------------------------------------------------------- inputs
Shapes(cells) == {s \in (0..cells) \X (0..cells) : s[1] * s[2] <= cells}

\* The stored entries, in column-major order, of the r-row matrix whose
\* entry at column-major position k is f[k] for k in DOMAIN f.
RECURSIVE ent_from(_, _, _, _)
ent_from(r, f, k, n) ==
  IF k >= n THEN <<>>
  ELSE (IF k \in DOMAIN f
        THEN <<[row |-> k % r, col |-> k \div r, value |-> f[k]]>>
        ELSE <<>>)
       \o ent_from(r, f, k + 1, n)

DenseOf(cells) ==
  UNION {{DenseMat(s[1], s[2], dat) : dat \in [1..(s[1] * s[2]) -> AVal]}
         : s \in Shapes(cells)}

SparseOf(cells) ==
  UNION {UNION {{SparseMat(s[1], s[2], ent_from(s[1], f, 0, s[1] * s[2]))
                 : f \in [S -> AVal]}
                : S \in SUBSET (0..(s[1] * s[2] - 1))}
         : s \in Shapes(cells)}

DenseAs == DenseOf(MaxCells)

SparseAs == SparseOf(MaxCells)

\* What the caller may pass as B: a 0 x 0 matrix or one with coefficients;
\* a dense one holds zeros, ones or NaNs, a sparse one stores its first and
\* last coefficient or neither.
BShapes == {s \in Shapes(MaxBCells) : (s[1] = 0) <=> (s[2] = 0)}

DenseBs ==
  {DenseMat(s[1], s[2], Storage(s[1] * s[2], <<g, g>>)) : s \in BShapes, g \in Val}

SparseBs ==
  UNION {UNION {{SparseMat(s[1], s[2], ent_from(s[1], f, 0, s[1] * s[2]))
                 : f \in [S -> {1}]}
                : S \in SUBSET ({0, s[1] * s[2] - 1} \cap (0..(s[1] * s[2] - 1)))}
         : s \in BShapes}

DRange == {-1} \cup (0..MaxD)

NoDyn == dyn_new(0, 0)

\* ---------------------------------------------------------------- the call
\* int m = A.rows(); int n = A.cols();
m == A.rows
n == A.cols

Init ==
  /\ kind \in {"dense", "sparse"}
  /\ A \in (IF kind = "dense" THEN DenseAs ELSE SparseAs)
  /\ d \in DRange
  /\ B \in (IF kind = "dense" THEN DenseBs ELSE SparseBs)
  /\ B0 = B
  /\ pc = "entry"
  /\ i = 0
  /\ dyn_B = NoDyn
  /\ d2 = 0
  /\ T = EmptyMat(kind)
  /\ R1 = EmptyMat(kind)
  /\ R2 = EmptyMat(kind)

\* B.resize(m*d, n*d), line 86.
DenseResize ==
  /\ pc = "entry" /\ kind = "dense"
  /\ m * d >= 0 /\ n * d >= 0
  /\ \E g \in Junk : B' = resize(B, m * d, n * d, g)
  /\ pc' = "resized"
  /\ UNCHANGED <<kind, A, d, B0, i, dyn_B, d2, T, R1, R2>>

\* The allocation inside resize throws std::bad_alloc; B is taken to be
\* as the caller passed it.
DenseResizeBadAlloc ==
  /\ pc = "entry" /\ kind = "dense"
  /\ m * d >= 0 /\ n * d >= 0
  /\ DenseSize(m * d, n * d) > 0
  /\ DenseSize(m * d, n * d) # DenseSize(B.rows, B.cols)
  /\ pc' = "failed"
  /\ UNCHANGED <<kind, A, d, B, B0, i, dyn_B, d2, T, R1, R2>>

\* resize with a negative dimension, which Eigen does not define: the
\* assertion of a debug build stops the program, the allocation throws, or
\* the call goes on with the dimensions as computed and no coefficient.
DenseResizeNegative ==
  /\ pc = "entry" /\ kind = "dense"
  /\ (m * d < 0 \/ n * d < 0)
  /\ \/ pc' = "aborted" /\ B' = B
     \/ pc' = "failed" /\ B' = B
     \/ pc' = "resized" /\ B' = DenseMat(m * d, n * d, <<>>)
  /\ UNCHANGED <<kind, A, d, B0, i, dyn_B, d2, T, R1, R2>>

\* B.array() *= 0, line 87, and the loop's i = 0.
DenseZeroA ==
  /\ pc = "resized"
  /\ A' = array_times_zero(A)
  /\ i' = 0
  /\ pc' = "loop"
  /\ UNCHANGED <<kind, B, d, B0, dyn_B, d2, T, R1, R2>>

DenseZero ==
  /\ pc = "resized"
  /\ B' = array_times_zero(B)
  /\ i' = 0
  /\ pc' = "loop"
  /\ UNCHANGED <<kind, A, d, B0, dyn_B, d2, T, R1, R2>>

\* One iteration of the loop at lines 88-91.
DenseBlock ==
  /\ pc = "loop" /\ kind = "dense"
  /\ i < d
  /\ B' = dense_block(B, A, i)
  /\ i' = i + 1
  /\ UNCHANGED <<kind, A, d, B0, pc, dyn_B, d2, T, R1, R2>>

\* The loop ends and the call returns, line 92.
DenseReturn ==
  /\ pc = "loop" /\ kind = "dense"
  /\ ~(i < d)
  /\ pc' = "done"
  /\ UNCHANGED <<kind, A, d, B, B0, i, dyn_B, d2, T, R1, R2>>

\* dyn_B(m*d, n*d) and the reserve, lines 56-59, and the loop's i = 0.
SparseAlloc ==
  /\ pc = "entry" /\ kind = "sparse"
  /\ m * d >= 0 /\ n * d >= 0
  /\ dyn_B' = dyn_new(m * d, n * d)
  /\ i' = 0
  /\ pc' = "loop"
  /\ UNCHANGED <<kind, A, d, B, B0, d2, T, R1, R2>>

\* dyn_B with a negative dimension: as for the dense resize.
SparseAllocNegative ==
  /\ pc = "entry" /\ kind = "sparse"
  /\ (m * d < 0 \/ n * d < 0)
  /\ \/ pc' = "aborted" /\ dyn_B' = dyn_B
     \/ pc' = "failed" /\ dyn_B' = dyn_B
     \/ pc' = "loop" /\ dyn_B' = [rows |-> m * d, cols |-> n * d, data |-> <<>>]
  /\ i' = 0
  /\ UNCHANGED <<kind, A, d, B, B0, d2, T, R1, R2>>

\* An allocation of the sparse overload throws std::bad_alloc: in the
\* constructor or reserve of dyn_B, in an insertion of coeffRef, or in the
\* conversion of line 75 (B taken to be as the caller passed it).
SparseBadAlloc ==
  /\ kind = "sparse"
  /\ \/ pc = "entry" /\ m * d > 0 /\ n * d >= 0
     \/ pc = "loop" /\ d > 0 /\ Len(A.ent) > 0
  /\ pc' = "failed"
  /\ UNCHANGED <<kind, A, d, B, B0, i, dyn_B, d2, T, R1, R2>>

\* One iteration of the loop over reps, lines 62-73.
SparseRep ==
  /\ pc = "loop" /\ kind = "sparse"
  /\ i < d
  /\ dyn_B' = sparse_rep(dyn_B, A, i)
  /\ i' = i + 1
  /\ UNCHANGED <<kind, A, d, B, B0, pc, d2, T, R1, R2>>

\* B = Eigen::SparseMatrix<T>(dyn_B), line 75, and the return.
SparseAssign ==
  /\ pc = "loop" /\ kind = "sparse"
  /\ ~(i < d)
  /\ B' = compress(dyn_B)
  /\ pc' = "done"
  /\ UNCHANGED <<kind, A, d, B0, i, dyn_B, d2, T, R1, R2>>

Next ==
  \/ DenseResize
  \/ DenseResizeBadAlloc
  \/ DenseResizeNegative
  \/ DenseZero
  \/ DenseBlock
  \/ DenseReturn
  \/ SparseAlloc
  \/ SparseAllocNegative
  \/ SparseBadAlloc
  \/ SparseRep
  \/ SparseAssign

Spec == Init /\ [][Next]_vars

\* ---------------------------------------------------------------- composition
\* A caller that computes repdiag(repdiag(A, d), d2) and repdiag(A, d * d2)
\* with the wrapper.
InitCompose ==
  /\ kind \in {"dense", "sparse"}
  /\ A \in (IF kind = "dense" THEN DenseOf(MaxComposeCells)
                              ELSE SparseOf(MaxComposeCells))
  /\ d \in 1..MaxD
  /\ d2 \in 1..MaxD
  /\ pc = "c_entry"
  /\ B = EmptyMat(kind)
  /\ B0 = B
  /\ i = 0
  /\ dyn_B = NoDyn
  /\ T = EmptyMat(kind)
  /\ R1 = EmptyMat(kind)
  /\ R2 = EmptyMat(kind)

\* T = repdiag(A, d)
ComposeInner ==
  /\ pc = "c_entry"
  /\ T' \in repdiag_wrapper(kind, A, d)
  /\ pc' = "c_inner"
  /\ UNCHANGED <<kind, A, d, B, B0, i, dyn_B, d2, R1, R2>>

\* R2 = repdiag(T, d2)
ComposeOuter ==
  /\ pc = "c_inner"
  /\ R2' \in repdiag_wrapper(kind, T, d2)
  /\ pc' = "c_outer"
  /\ UNCHANGED <<kind, A, d, B, B0, i, dyn_B, d2, T, R1>>

\* R1 = repdiag(A, d * d2)
ComposeDirect ==
  /\ pc = "c_outer"
  /\ R1' \in repdiag_wrapper(kind, A, d * d2)
  /\ pc' = "c_done"
  /\ UNCHANGED <<kind, A, d, B, B0, i, dyn_B, d2, T, R2>>

NextCompose == ComposeInner \/ ComposeOuter \/ ComposeDirect

SpecCompose == InitCompose /\ [][NextCompose]_vars

\* ---------------------------------------------------------------- properties
IsDense(M) == "data" \in DOMAIN M

\* The coefficient of M at (r, c), whichever the representation.
Coeff(M, r, c) == IF IsDense(M) THEN coeff(M, r, c) ELSE sparse_coeff(M, r, c)

\* (r, c) lies in one of the n diagonal blocks of the shape of X.
InDiagBlock(r, c, X, cnt) ==
  \E k \in 0..(cnt - 1) :
    /\ k * X.rows <= r /\ r < (k + 1) * X.rows
    /\ k * X.cols <= c /\ c < (k + 1) * X.cols

\* M is n times as large as X and each of its n diagonal blocks is X.
BlocksEqual(M, X, cnt) ==
  /\ M.rows = X.rows * cnt /\ M.cols = X.cols * cnt
  /\ \A k \in 0..(cnt - 1) : \A r \in 0..(X.rows - 1) : \A c \in 0..(X.cols - 1) :
       /\ Coeff(M, k * X.rows + r, k * X.cols + c) = Coeff(X, r, c)
       /\ ~IsDense(M) =>
            (stored(M, k * X.rows + r, k * X.cols + c) <=> stored(X, r, c))

\* Outside the n diagonal blocks M is zero, and stores nothing if sparse.
OffDiagZero(M, X, cnt) ==
  \A r \in 0..(M.rows - 1) : \A c \in 0..(M.cols - 1) :
    ~InDiagBlock(r, c, X, cnt) =>
       /\ Coeff(M, r, c) = 0
       /\ ~IsDense(M) => ~stored(M, r, c)

\* What repdiag(X, n, M) can leave in M.
Results(k, X, cnt, M) ==
  IF k = "dense"
  THEN {repdiag_dense(X, cnt, M, g) : g \in Junk}
  ELSE {repdiag_sparse(X, cnt)}

\* C1: when a call with d >= 1 has returned, B is m*d by n*d and each of its
\* d diagonal blocks equals A entry for entry (dense and sparse).
Thm_C1 == (pc = "done" /\ d >= 1) => BlocksEqual(B, A, d)

Wit_C1 ==
  /\ pc = "done" /\ kind = "dense" /\ d = 2
  /\ m = 1 /\ n = 2 /\ coeff(A, 0, 0) = 1 /\ coeff(A, 0, 1) = 0
  /\ coeff(B, 1, 2) = 1

\* C2: when a call with d >= 0 has returned, every coefficient of B outside
\* the diagonal blocks is zero, and is not a stored entry of a sparse B.
CX_C2 == (pc = "done" /\ d >= 0) => OffDiagZero(B, A, d)

\* C3: when a call with d >= 0 has returned, B has m*d rows and n*d columns
\* (0 by 0 for d = 0).
Thm_C3 == (pc = "done" /\ d >= 0) => (B.rows = m * d /\ B.cols = n * d)

Wit_C3 ==
  /\ pc = "done" /\ kind = "dense" /\ d = 0
  /\ m = 1 /\ n = 2 /\ B0.rows = 2 /\ B0.cols = 2
  /\ B.rows = 0 /\ B.cols = 0

\* C4: a call with d < 0 is rejected: it never goes past its entry except
\* into an error outcome.
CX_C4 == (d < 0) => pc \in {"entry", "failed", "aborted"}

CX_C6 ==
  (pc = "done" /\ d >= 0) =>
     /\ B.rows = m * d /\ B.cols = n * d
     /\ \A M \in (IF kind = "dense" THEN DenseBs ELSE SparseBs) :
          \A R \in Results(kind, A, d, M) : R = B

\* C7: when the sparse call with d >= 0 has returned and no stored entry of
\* A is zero, B stores d times as many entries as A.
Thm_C7 ==
  (pc = "done" /\ kind = "sparse" /\ d >= 0
   /\ \A p \in 1..Len(A.ent) : A.ent[p].value # 0)
  => Len(B.ent) = d * Len(A.ent)

Wit_C7 ==
  /\ pc = "done" /\ kind = "sparse" /\ d = 2
  /\ Len(A.ent) = 2 /\ A.ent[1].value = 1 /\ A.ent[2].value = 2
  /\ Len(B.ent) = 4

\* C8 as stated: in the overload at hand some A and d1, d2 >= 1 make
\* repdiag(repdiag(A, d1), d2) differ from repdiag(A, d1 * d2).
CX_C8 ==
  \E X \in (IF kind = "dense" THEN DenseOf(MaxComposeCells)
                                ELSE SparseOf(MaxComposeCells)) :
    \E x \in 1..MaxD : \E y \in 1..MaxD :
      \E t \in repdiag_wrapper(kind, X, x) :
        \E r2 \in repdiag_wrapper(kind, t, y) :
          \E r1 \in repdiag_wrapper(kind, X, x * y) : r2 # r1

\* C8 amended: repdiag(repdiag(A, d1), d2) and repdiag(A, d1 * d2) have the
\* same dimensions and the same d1*d2 diagonal blocks, each equal to A; the
\* two sparse results are identical.
Thm_C8 ==
  (pc = "c_done") =>
     /\ BlocksEqual(R2, A, d * d2)
     /\ BlocksEqual(R1, A, d * d2)
     /\ kind = "sparse" => R2 = R1

Wit_C8 ==
  /\ pc = "c_done" /\ kind = "sparse" /\ d = 2 /\ d2 = 2
  /\ Len(A.ent) = 2 /\ A.ent[1].value = 1
  /\ Len(R1.ent) = 8 /\ R2 = R1

\* C9: when a call with d = 1 has returned, B equals A: same dimensions,
\* same entries.
Thm_C9 == (pc = "done" /\ d = 1) => B = A

Wit_C9 ==
  /\ pc = "done" /\ kind = "dense" /\ d = 1
  /\ m = 2 /\ n = 1 /\ coeff(A, 1, 0) = 1
  /\ B0.rows = 1 /\ B0.cols = 2 /\ coeff(B0, 0, 1) = 0

\* C10: a call with d >= 0 that returns leaves B with the d diagonal blocks
\* and zeros elsewhere, and a call that fails leaves B as the caller
\* passed it.
CX_C10 ==
  /\ (pc = "done" /\ d >= 0) => (BlocksEqual(B, A, d) /\ OffDiagZero(B, A, d))
  /\ (pc = "failed") => B = B0

====
